---- MODULE Spec2Model ----
(***************************************************************************)
(* Model of src/main.py, the Asilo Finanza CrashMeter batch script.        *)
(*                                                                         *)
(* One run of the script is one behaviour: the three source adapters are   *)
(* called in turn, the three series are merged and validated, the          *)
(* indicators and the composite score are computed, and the three          *)
(* artifacts are written one after the other.  An uncaught exception ends  *)
(* the run (pc = "aborted").                                               *)
(*                                                                         *)
(* Floats are modelled as exact fractions [n, d] with d > 0; NaN is the    *)
(* fraction 0/0.  Comparisons involving NaN are false, as in IEEE-754.     *)
(*                                                                         *)
(* The window lengths of the script (120 months of minimum history, a      *)
(* 10-month moving average) are scaled down to MinPeriods and SmaWindow so *)
(* that every regime of the script (rows without a moving average, rows    *)
(* without percentile ranks, rows with one rank only, complete rows) is    *)
(* reached by series of at most MaxMonths months.  Every definition below  *)
(* is written in terms of these names, never of their values.              *)
(***************************************************************************)
EXTENDS Integers, Sequences, FiniteSets, TLC

\* ------------------------------------------------------------------ bounds
\* Length of the longest gap-free history the providers may hold.
MaxMonths == 6
\* Calendar span of the histories with gaps and late starts.
SparseMonths == 5

\* ------------------------------------------------------- program constants
\* expanding(min_periods=120): scaled down, see the header.
MinPeriods == 3
\* rolling(10): scaled down, see the header.
SmaWindow == 2
\* rolling(3, min_periods=1)
SmoothWindow == 3
\* tail(36)
TailRows == 36
\* max(80.0, raw_score + 10)
FloorScore == 80
FloorBoost == 10
\* Valuation_Risk * 0.60 + Extension_Risk * 0.40, in hundredths
WeightValuation == 60
WeightExtension == 40
\* score > 80, score > 50
RedLine == 80
YellowLine == 50
\* ultimo_valore > 100, ultimo_valore > 1, division by 100
BasisPointsAbove == 100
PercentAbove == 1
PercentDivisor == 100

\* ------------------------------------------------------- float arithmetic
RECURSIVE Gcd(_, _)
Gcd(a, b) == IF b = 0 THEN a ELSE Gcd(b, a % b)

Abs(x) == IF x < 0 THEN 0 - x ELSE x

NaN == [n |-> 0, d |-> 0]

IsNaN(x) == x.d = 0

\* The fraction n/d in lowest terms, d > 0.
Frac(n, d) ==
    LET g == Gcd(Abs(n), Abs(d))
    IN  IF d = 0 THEN NaN
        ELSE IF d < 0 THEN [n |-> (0 - n) \div g, d |-> (0 - d) \div g]
        ELSE [n |-> n \div g, d |-> d \div g]

Num(k) == [n |-> k, d |-> 1]

FAdd(a, b) ==
    IF IsNaN(a) \/ IsNaN(b) THEN NaN ELSE Frac(a.n * b.d + b.n * a.d, a.d * b.d)

FSub(a, b) ==
    IF IsNaN(a) \/ IsNaN(b) THEN NaN ELSE Frac(a.n * b.d - b.n * a.d, a.d * b.d)

FMul(a, b) ==
    IF IsNaN(a) \/ IsNaN(b) THEN NaN ELSE Frac(a.n * b.n, a.d * b.d)

\* Division by a non-zero value (no series of the model holds a zero divisor).
FDiv(a, b) ==
    IF IsNaN(a) \/ IsNaN(b) THEN NaN ELSE Frac(a.n * b.d, a.d * b.n)

FLt(a, b) == ~IsNaN(a) /\ ~IsNaN(b) /\ a.n * b.d < b.n * a.d

FGt(a, b) == FLt(b, a)

FLe(a, b) == ~IsNaN(a) /\ ~IsNaN(b) /\ a.n * b.d <= b.n * a.d

FGe(a, b) == FLe(b, a)

FEq(a, b) == ~IsNaN(a) /\ ~IsNaN(b) /\ a.n * b.d = b.n * a.d

\* Python's max(a, b): b only when b > a, so max(80.0, nan) is 80.0.
PyMax(a, b) == IF FGt(b, a) THEN b ELSE a

\* Series.clip(lo, hi): NaN stays NaN.
Clip(x, lo, hi) == IF FLt(x, lo) THEN lo ELSE IF FGt(x, hi) THEN hi ELSE x

\* int(x) of a non-negative float: truncation.
IntOf(x) == x.n \div x.d

\* round(x, 1) of a non-negative float, half to even; round(nan, 1) is nan.
Round1(x) ==
    IF IsNaN(x) THEN NaN
    ELSE LET t == 10 * x.n
             q == t \div x.d
             r == t % x.d
             up == \/ 2 * r > x.d
                   \/ (2 * r = x.d /\ q % 2 = 1)
         IN  Frac(IF up THEN q + 1 ELSE q, 10)

\* ---------------------------------------------------------------- series
\* A series is a function from its index (a set of month-end ordinals) to
\* floats.  The empty function is a series with no rows.
EmptySeries == << >>

Index(s) == DOMAIN s

RECURSIVE SortedSeq(_)
\* The dates of S in ascending order.
SortedSeq(S) ==
    IF S = {} THEN << >>
    ELSE LET m == CHOOSE x \in S : \A y \in S : x <= y
         IN  <<m>> \o SortedSeq(S \ {m})

\* A column as a sequence of values, one per row, in row order.
AsSeq(f) == SubSeq(f, 1, Cardinality(DOMAIN f))

\* Last element of a series by position: iloc[-1].
ILocLast(s) == s[CHOOSE x \in Index(s) : \A y \in Index(s) : y <= x]

\* ------------------------------------------------------ what providers hold
\* Month-on-month moves of the price, as powers of two: halved, flat,
\* doubled, quadrupled.
PriceMoves == {0 - 1, 0, 1, 2}
CapeVals == {20, 25}
\* True 10-year rates, as decimal fractions: 2% and 4%.
RateLo == Frac(2, 100)
RateHi == Frac(4, 100)

RECURSIVE Pow2(_)
Pow2(e) == IF e = 0 THEN 1 ELSE 2 * Pow2(e - 1)

RECURSIVE SumMoves(_, _)
SumMoves(m, d) == IF d = 0 THEN 0 ELSE m[d] + SumMoves(m, d - 1)

\* A gap-free history of n months: a price that starts at 2^n and moves by
\* m[d] after month d, a valuation ratio that is a through month k and b
\* afterwards, and a flat rate.
DenseWorld(n, m, a, b, k) ==
    [price |-> [d \in 1..n |-> Num(Pow2(n + SumMoves(m, d - 1)))],
     cape  |-> [d \in 1..n |-> Num(IF d <= k THEN a ELSE b)],
     rate  |-> [d \in 1..n |-> RateLo]]

\* Values of the histories with gaps: a fixed function of the date.
PriceAt == [d \in 1..SparseMonths |-> Num(IF d % 2 = 0 THEN 1 ELSE 2)]
CapeAt == [d \in 1..SparseMonths |-> Num(IF d % 2 = 0 THEN 20 ELSE 25)]
RateAt == [d \in 1..SparseMonths |-> IF d <= 2 THEN RateLo ELSE RateHi]

\* resample('ME').last(): every month from the first month with data (lo) to
\* the last (hi) is a row; a month without data (a hole) is a NaN row.
Resampled(at, lo, hi, holes) ==
    [d \in lo..hi |-> IF d \in holes THEN NaN ELSE at[d]]

\* The valuation series after dropna(): the months of S, no NaN.
Dropped(at, S) == [d \in S |-> at[d]]

\* Scales in which the Yahoo ^TNX quote may arrive.
TnxScales == {"decimal", "percent", "basis_points"}

\* What a provider reports for a true rate r (a decimal fraction).
Reported(r, scale) ==
    CASE scale = "decimal" -> r
      [] scale = "percent" -> FMul(r, Num(100))
      [] scale = "basis_points" -> FMul(r, Num(10000))

\* ------------------------------------------------------------------ state
VARIABLES
    pc,          \* position of the script
    world,       \* the histories the three providers hold during this run
    cape,        \* module-level cape   (line 131)
    price,       \* module-level price  (line 132)
    rates,       \* module-level rates  (line 133)
    df,          \* the data frame, a sequence of rows in index order
    score,       \* score   (line 211)
    zona,        \* zona    (lines 219-227)
    azione,      \* azione  (lines 219-227)
    files,       \* the artifacts on disk: file name -> content
    error        \* the exception that ended the run, "" if none

vars == <<pc, world, cape, price, rates, df, score, zona, azione,
          files, error>>

Init ==
    /\ pc = "start"
    /\ \/ \E n \in (MinPeriods - 1)..MaxMonths :
             \E m \in [1..(n - 1) -> PriceMoves],
                a \in CapeVals, b \in CapeVals, k \in 0..(n - 1) :
                world = DenseWorld(n, m, a, b, k)
       \/ \E plo \in 1..SparseMonths, rlo \in 1..SparseMonths :
             \E phi \in plo..SparseMonths, rhi \in rlo..SparseMonths :
                \E pholes \in SUBSET ((plo + 1)..(phi - 1)),
                   S \in (SUBSET (1..SparseMonths)) \ {{}} :
                   world = [price |-> Resampled(PriceAt, plo, phi, pholes),
                            cape  |-> Dropped(CapeAt, S),
                            rate  |-> Resampled(RateAt, rlo, rhi, {})]
    /\ cape = EmptySeries
    /\ price = EmptySeries
    /\ rates = EmptySeries
    /\ df = << >>
    /\ score = NaN
    /\ zona = ""
    /\ azione = ""
    /\ files = << >>
    /\ error = ""

\* An uncaught exception: the interpreter exits, nothing else changes.
Raise(e) ==
    /\ pc' = "aborted"
    /\ error' = e

\* ----------------------------------------------------- 1. source adapters
\* get_shiller_cape(), successful download: the CAPE column after dropna().
GetShillerCape ==
    /\ pc = "start"
    /\ pc' = "cape"
    /\ cape' = world.cape
    /\ UNCHANGED <<world, price, rates, df, score, zona, azione, files, error>>

\* get_shiller_cape(), the request or the parsing raises: re-raised.
GetShillerCapeFails ==
    /\ pc = "start"
    /\ Raise("SourceUnavailable:cape")
    /\ UNCHANGED <<world, cape, price, rates, df, score, zona, azione, files>>

\* get_market_price(), successful download, resampled to month end.
GetMarketPrice ==
    /\ pc = "cape"
    /\ pc' = "price"
    /\ price' = world.price
    /\ UNCHANGED <<world, cape, rates, df, score, zona, azione, files, error>>

GetMarketPriceFails ==
    /\ pc = "cape"
    /\ Raise("SourceUnavailable:price")
    /\ UNCHANGED <<world, cape, price, rates, df, score, zona, azione, files>>

\* First attempt of get_rates_robust(): FRED reports GS10 in percent.
FredRates(trueRate) ==
    [d \in Index(trueRate) |->
        FDiv(Reported(trueRate[d], "percent"), Num(PercentDivisor))]

\* Second attempt of get_rates_robust(): the scale of the whole series is
\* guessed from its last value.
YahooRates(tnx_monthly) ==
    LET ultimo_valore == ILocLast(tnx_monthly)
    IN  IF FGt(ultimo_valore, Num(BasisPointsAbove))
        THEN [d \in Index(tnx_monthly) |-> FDiv(tnx_monthly[d], Num(PercentDivisor))]
        ELSE IF FGt(ultimo_valore, Num(PercentAbove))
        THEN [d \in Index(tnx_monthly) |-> FDiv(tnx_monthly[d], Num(PercentDivisor))]
        ELSE tnx_monthly

GetRatesFred ==
    /\ pc = "price"
    /\ pc' = "rates"
    /\ rates' = FredRates(world.rate)
    /\ UNCHANGED <<world, cape, price, df, score, zona, azione, files, error>>

\* FRED raised; Yahoo answers, in one of the scales the script allows for.
GetRatesYahoo ==
    /\ pc = "price"
    /\ \E scale \in TnxScales :
          rates' = YahooRates([d \in Index(world.rate) |->
                                  Reported(world.rate[d], scale)])
    /\ pc' = "rates"
    /\ UNCHANGED <<world, cape, price, df, score, zona, azione, files, error>>

\* FRED raised and Yahoo raised: re-raised.
GetRatesFails ==
    /\ pc = "price"
    /\ Raise("SourceUnavailable:rates")
    /\ UNCHANGED <<world, cape, price, rates, df, score, zona, azione, files>>

\* ------------------------------------------------- 2. merge and validation
ValueAt(s, d) == IF d \in Index(s) THEN s[d] ELSE NaN

\* pd.concat([price, rates, cape], axis=1): one row per date of the union of
\* the three indexes, in date order, NaN where a series has no such date.
Concat(p, r, c) ==
    LET dates == SortedSeq(Index(p) \cup Index(r) \cup Index(c))
    IN  [i \in 1..Len(dates) |->
            [Date  |-> dates[i],
             Price |-> ValueAt(p, dates[i]),
             US10Y |-> ValueAt(r, dates[i]),
             CAPE  |-> ValueAt(c, dates[i])]]

NoNaN(row) == ~IsNaN(row.Price) /\ ~IsNaN(row.US10Y) /\ ~IsNaN(row.CAPE)

SomeValue(row) == ~IsNaN(row.Price) \/ ~IsNaN(row.US10Y) \/ ~IsNaN(row.CAPE)

\* Mutant of DropNa: dropna(how='all'), which keeps a row with one value.
DropNaHowAll(frame) == SelectSeq(frame, SomeValue)

\* DataFrame.dropna(): the rows without any NaN, order kept.
DropNa(frame) == SelectSeq(frame, NoNaN)

Merge(p, r, c) == DropNa(Concat(p, r, c))

\* Mutant of MergeAndValidate: the length check is missing.
MergeWithoutLengthCheck ==
    /\ pc = "rates"
    /\ LET merged == Merge(price, rates, cape)
       IN  /\ df' = merged
           /\ IF Len(merged) = 0
              THEN Raise("IndexError")
              ELSE pc' = "merged" /\ error' = error
    /\ UNCHANGED <<world, cape, price, rates, score, zona, azione, files>>

\* Lines 135-150.  df.index[0] of an empty frame raises IndexError before
\* the length check; the two range warnings only print.
MergeAndValidate ==
    /\ pc = "rates"
    /\ LET merged == Merge(price, rates, cape)
       IN  /\ df' = merged
           /\ IF Len(merged) = 0
              THEN Raise("IndexError")
              ELSE IF Len(merged) < MinPeriods
              THEN Raise("InsufficientHistory")
              ELSE pc' = "merged" /\ error' = error
    /\ UNCHANGED <<world, cape, price, rates, score, zona, azione, files>>

\* ------------------------------------------------------- 3. indicators
FNeg(x) == FSub(Num(0), x)

Max2(a, b) == IF a > b THEN a ELSE b

RECURSIVE SumRange(_, _, _)
\* s[lo] + ... + s[hi]; NaN as soon as one term is NaN.
SumRange(s, lo, hi) ==
    IF lo > hi THEN Num(0) ELSE FAdd(SumRange(s, lo, hi - 1), s[hi])

RECURSIVE SumValid(_, _, _)
\* s[lo] + ... + s[hi] over the terms that are not NaN.
SumValid(s, lo, hi) ==
    IF lo > hi THEN Num(0)
    ELSE IF IsNaN(s[hi]) THEN SumValid(s, lo, hi - 1)
    ELSE FAdd(SumValid(s, lo, hi - 1), s[hi])

\* Number of values of s[lo..hi] that are not NaN.
CountValid(s, lo, hi) == Cardinality({j \in lo..hi : ~IsNaN(s[j])})

\* Mutant of AverageRank: rank(method='max'), every tie counted in full.
MaxRank(below, ties) == Num(below + ties)

\* rank(method='average'): a value's rank is the mean of the positions its
\* ties occupy, i.e. (number below) + (number of ties, itself included, + 1)/2.
AverageRank(below, ties) == Frac(2 * below + ties + 1, 2)

\* Series.expanding(min_periods=minp).rank(pct=True): the rank of s[i] among
\* the values of s[1..i] that are not NaN, over their number; NaN while
\* fewer than minp of them exist.
ExpandingRankPct(s, minp) ==
    AsSeq([i \in 1..Len(s) |->
        LET nobs  == CountValid(s, 1, i)
            below == Cardinality({j \in 1..i : FLt(s[j], s[i])})
            ties  == Cardinality({j \in 1..i : FEq(s[j], s[i])})
        IN  IF nobs < minp \/ IsNaN(s[i]) THEN NaN
            ELSE FDiv(AverageRank(below, ties), Num(nobs))])

\* Series.rolling(w).mean(): NaN until w values exist.
RollingMean(s, w) ==
    AsSeq([i \in 1..Len(s) |->
        IF i < w THEN NaN ELSE FDiv(SumRange(s, i - w + 1, i), Num(w))])

\* Series.rolling(w, min_periods=minp).mean(): the mean of the values of the
\* window that are not NaN; NaN when fewer than minp of them exist.
RollingMeanMinPeriods(s, w, minp) ==
    AsSeq([i \in 1..Len(s) |->
        LET lo == Max2(1, i - w + 1)
            k  == CountValid(s, lo, i)
        IN  IF k < minp THEN NaN ELSE FDiv(SumValid(s, lo, i), Num(k))])

\* Mutant of TrendBull: greater-or-equal, a tie counts as bullish.
TrendBullOrEqual(p, sma) == IF FGe(p, sma) THEN 1 ELSE 0

\* (df['Price'] > df['SMA10']).astype(int)
TrendBull(p, sma) == IF FGt(p, sma) THEN 1 ELSE 0

HasSma(row) == ~IsNaN(row.SMA10)

\* Lines 159-172: the indicator columns of a merged frame.
Indicators(frame) ==
    LET n      == Len(frame)
        ey     == AsSeq([i \in 1..n |-> FDiv(Num(1), frame[i].CAPE)])
        ecy    == AsSeq([i \in 1..n |-> FSub(ey[i], frame[i].US10Y)])
        negEcy == AsSeq([i \in 1..n |-> FNeg(ecy[i])])
        capes  == AsSeq([i \in 1..n |-> frame[i].CAPE])
        prices == AsSeq([i \in 1..n |-> frame[i].Price])
        valRisk == ExpandingRankPct(negEcy, MinPeriods)
        capePct == ExpandingRankPct(capes, MinPeriods)
        sma     == RollingMean(prices, SmaWindow)
        ext     == AsSeq([i \in 1..n |-> FSub(FDiv(prices[i], sma[i]), Num(1))])
        extRisk == ExpandingRankPct(ext, MinPeriods)
    IN  [i \in 1..n |->
            [Date            |-> frame[i].Date,
             Price           |-> frame[i].Price,
             US10Y           |-> frame[i].US10Y,
             CAPE            |-> frame[i].CAPE,
             EY              |-> ey[i],
             ECY             |-> ecy[i],
             Valuation_Risk  |-> valRisk[i],
             CAPE_Percentile |-> capePct[i],
             SMA10           |-> sma[i],
             Extension       |-> ext[i],
             Extension_Risk  |-> extRisk[i],
             Trend_Bull      |-> TrendBull(prices[i], sma[i])]]

\* df.dropna(subset=['SMA10'])
DropNaSma(frame) == SelectSeq(frame, HasSma)

\* Lines 156-176.
ComputeIndicators ==
    /\ pc = "merged"
    /\ pc' = "indicators"
    /\ df' = DropNaSma(Indicators(df))
    /\ UNCHANGED <<world, cape, price, rates, score, zona, azione, files, error>>

\* ------------------------------------------------- 4. CrashMeter hardcore
\* Lines 184-185.
BaseRisk(valuation_risk, extension_risk) ==
    Clip(FAdd(FMul(valuation_risk, Frac(WeightValuation, 100)),
              FMul(extension_risk, Frac(WeightExtension, 100))),
         Num(0), Num(1))

RawScore(base_risk) == FMul(base_risk, Num(100))

\* Lines 187-201.
asilo_crashmeter_hardcore(base_risk, trend_bull) ==
    LET raw_score == RawScore(base_risk)
    IN  IF trend_bull = 1
        THEN raw_score
        ELSE PyMax(Num(FloorScore), FAdd(raw_score, Num(FloorBoost)))

\* Lines 184-204: Base_Risk, CrashMeter and CrashMeter_Smooth.
Scored(frame) ==
    LET n     == Len(frame)
        base  == AsSeq([i \in 1..n |->
                    BaseRisk(frame[i].Valuation_Risk, frame[i].Extension_Risk)])
        crash == AsSeq([i \in 1..n |->
                    asilo_crashmeter_hardcore(base[i], frame[i].Trend_Bull)])
        smooth == RollingMeanMinPeriods(crash, SmoothWindow, 1)
    IN  [i \in 1..n |->
            [Date              |-> frame[i].Date,
             Price             |-> frame[i].Price,
             US10Y             |-> frame[i].US10Y,
             CAPE              |-> frame[i].CAPE,
             EY                |-> frame[i].EY,
             ECY               |-> frame[i].ECY,
             Valuation_Risk    |-> frame[i].Valuation_Risk,
             CAPE_Percentile   |-> frame[i].CAPE_Percentile,
             SMA10             |-> frame[i].SMA10,
             Extension         |-> frame[i].Extension,
             Extension_Risk    |-> frame[i].Extension_Risk,
             Trend_Bull        |-> frame[i].Trend_Bull,
             Base_Risk         |-> base[i],
             CrashMeter        |-> crash[i],
             CrashMeter_Smooth |-> smooth[i]]]

\* ------------------------------------------------------------- 5. output
\* Lines 219-227: the if / elif / else that sets zona and azione.
ZonaOf(s) ==
    IF FGt(s, Num(RedLine)) THEN "ZONA ROSSA ESTREMA"
    ELSE IF FGt(s, Num(YellowLine)) THEN "ZONA GIALLA (CAUTELA)"
    ELSE "ZONA VERDE"

AzioneOf(s) ==
    IF FGt(s, Num(RedLine))
    THEN "Proteggere il capitale. Ridurre esposizione azionaria."
    ELSE IF FGt(s, Num(YellowLine))
    THEN "Accumulo graduale solo su debolezze significative."
    ELSE "Ok sovrappesare azioni per il lungo periodo."

\* Lines 184-237.
CrashMeterHardcore ==
    /\ pc = "indicators"
    /\ pc' = "scored"
    /\ LET frame == Scored(df)
           last  == frame[Len(frame)]
       IN  /\ df' = frame
           /\ score' = last.CrashMeter_Smooth
           /\ zona' = ZonaOf(last.CrashMeter_Smooth)
           /\ azione' = AzioneOf(last.CrashMeter_Smooth)
    /\ UNCHANGED <<world, cape, price, rates, files, error>>

\* ------------------------------------------------------ 6. and 7. files
\* Mutant of JsonZona: a score of exactly 80 is already red.
JsonZonaFromEighty(s) ==
    IF FGe(s, Num(RedLine)) THEN "ROSSA"
    ELSE IF FGt(s, Num(YellowLine)) THEN "GIALLA" ELSE "VERDE"

\* Line 247.
JsonZona(s) ==
    IF FGt(s, Num(RedLine)) THEN "ROSSA"
    ELSE IF FGt(s, Num(YellowLine)) THEN "GIALLA" ELSE "VERDE"

\* Line 248.
JsonColore(s) ==
    IF FGt(s, Num(RedLine)) THEN "#d32f2f"
    ELSE IF FGt(s, Num(YellowLine)) THEN "#fbc02d" ELSE "#388e3c"

\* Line 249: the glyphs U+1F534, U+1F7E1, U+1F7E2.
JsonEmoji(s) ==
    IF FGt(s, Num(RedLine)) THEN "U+1F534"
    ELSE IF FGt(s, Num(YellowLine)) THEN "U+1F7E1" ELSE "U+1F7E2"

\* Lines 244-265.  The last row of a validated frame always has its two
\* valuation percentiles, so int() never meets NaN.  The date strings and the
\* three rounded display metrics are left out.
JsonOut ==
    LET last == df[Len(df)]
    IN  [score  |-> Round1(score),
         zona   |-> JsonZona(score),
         colore_hex |-> JsonColore(score),
         emoji  |-> JsonEmoji(score),
         cape_percentile |-> IntOf(FMul(last.CAPE_Percentile, Num(100))),
         valuation_risk_percentile |-> IntOf(FMul(last.Valuation_Risk, Num(100))),
         trend  |-> IF last.Trend_Bull = 1 THEN "RIALZISTA" ELSE "RIBASSISTA",
         azione_consigliata |-> azione,
         as_of  |-> last.Date,
         versione |-> "Hardcore 1.0"]

\* Line 273: the last 36 rows of four columns.
DfExport ==
    LET n     == Len(df)
        first == Max2(1, n - TailRows + 1)
    IN  [i \in 1..(n - first + 1) |->
            [Date              |-> df[first + i - 1].Date,
             CrashMeter_Smooth |-> df[first + i - 1].CrashMeter_Smooth,
             CAPE              |-> df[first + i - 1].CAPE,
             Extension         |-> df[first + i - 1].Extension,
             Trend_Bull        |-> df[first + i - 1].Trend_Bull]]

\* Lines 286-319: what the chart shows.
Grafico ==
    [title_score |-> Round1(score),
     title_zona  |-> zona,
     line        |-> [i \in 1..Len(df) |-> df[i].CrashMeter_Smooth]]

StatusFile == "crashmeter_status.json"
HistoryFile == "crashmeter_history.csv"
ChartFile == "crashmeter_grafico.png"

\* Lines 244-270.
SaveJson ==
    /\ pc = "scored"
    /\ pc' = "json"
    /\ files' = (StatusFile :> JsonOut) @@ files
    /\ UNCHANGED <<world, cape, price, rates, df, score, zona, azione, error>>

\* open() or json.dump() raises (read-only directory, full disk).
SaveJsonFails ==
    /\ pc = "scored"
    /\ Raise("OSError:json")
    /\ UNCHANGED <<world, cape, price, rates, df, score, zona, azione, files>>

\* Lines 273-275.
SaveCsv ==
    /\ pc = "json"
    /\ pc' = "csv"
    /\ files' = (HistoryFile :> DfExport) @@ files
    /\ UNCHANGED <<world, cape, price, rates, df, score, zona, azione, error>>

SaveCsvFails ==
    /\ pc = "json"
    /\ Raise("OSError:csv")
    /\ UNCHANGED <<world, cape, price, rates, df, score, zona, azione, files>>

\* Lines 281-327.
SaveChart ==
    /\ pc = "csv"
    /\ pc' = "done"
    /\ files' = (ChartFile :> Grafico) @@ files
    /\ UNCHANGED <<world, cape, price, rates, df, score, zona, azione, error>>

\* plt.subplots(), the drawing calls or plt.savefig() raise.
SaveChartFails ==
    /\ pc = "csv"
    /\ Raise("Error:chart")
    /\ UNCHANGED <<world, cape, price, rates, df, score, zona, azione, files>>

Next ==
    \/ GetShillerCape
    \/ GetShillerCapeFails
    \/ GetMarketPrice
    \/ GetMarketPriceFails
    \/ GetRatesFred
    \/ GetRatesYahoo
    \/ GetRatesFails
    \/ MergeAndValidate
    \/ ComputeIndicators
    \/ CrashMeterHardcore
    \/ SaveJson
    \/ SaveJsonFails
    \/ SaveCsv
    \/ SaveCsvFails
    \/ SaveChart
    \/ SaveChartFails

Spec == Init /\ [][Next]_vars

\* =================================================================
\* Properties
\* =================================================================
\* The dates on which all three fetched series hold a value.
CommonDates ==
    {d \in Index(price) \cap Index(rates) \cap Index(cape) :
        ~IsNaN(price[d]) /\ ~IsNaN(rates[d]) /\ ~IsNaN(cape[d])}

\* 1-based position of date d in the aligned series (0-indexed i = PosOf - 1).
PosOf(d) == Cardinality({e \in CommonDates : e <= d})

\* The aligned dates, oldest first, and the prices on them.
AlignedDates == SortedSeq(CommonDates)

AlignedPrice ==
    LET ds == AlignedDates
    IN  AsSeq([j \in 1..Len(ds) |-> price[ds[j]]])

HasMerged == pc = "merged" \/ error \in {"IndexError", "InsufficientHistory"}
HasIndicators == Len(df) > 0 /\ "SMA10" \in DOMAIN df[1]
HasScores == Len(df) > 0 /\ "CrashMeter" \in DOMAIN df[1]

\* ---- C4 -----------------------------------------------------------------
\* C4: the aligned frame has exactly one row for each date that holds a
\* non-null value in all three fetched series and no other row, in strictly
\* ascending date order, and each row carries the three series' own values
\* for its date.
C4_MergeCorrect ==
    HasMerged =>
        /\ {df[i].Date : i \in 1..Len(df)} = CommonDates
        /\ Len(df) = Cardinality(CommonDates)
        /\ \A i \in 1..Len(df) : \A j \in 1..Len(df) :
              i < j => df[i].Date < df[j].Date
        /\ \A i \in 1..Len(df) :
              /\ df[i].Price = price[df[i].Date]
              /\ df[i].US10Y = rates[df[i].Date]
              /\ df[i].CAPE = cape[df[i].Date]

\* Witness of C4: a merge whose three inputs have three different indexes,
\* one of them with a NaN row, and whose result skips a month.
C4_Witness ==
    /\ pc = "merged"
    /\ Index(price) # Index(rates)
    /\ Index(price) # Index(cape)
    /\ Index(rates) # Index(cape)
    /\ \E d \in Index(price) : IsNaN(price[d])
    /\ \E i \in 1..(Len(df) - 1) : df[i + 1].Date > df[i].Date + 1

\* raw_score of a scored row.
Raw(row) == FMul(row.Base_Risk, Num(100))

\* ---- C1 -----------------------------------------------------------------
\* C1: for every retained row whose trend flag is false, final_score >= 80,
\* final_score = 80 exactly when raw_score <= 70, and final_score is
\* raw_score + 10 when raw_score > 70; for every retained row whose trend
\* flag is true, final_score = raw_score.  (Stated for the runs whose rate
\* series is already correct.)
C1_FloorInvariant ==
    (pc = "scored" /\ rates = world.rate) =>
        \A i \in 1..Len(df) :
            LET raw == Raw(df[i])
                final == df[i].CrashMeter
            IN  IF df[i].Trend_Bull = 0
                THEN /\ FGe(final, Num(80))
                     /\ FEq(final, Num(80)) <=> FLe(raw, Num(70))
                     /\ FGt(raw, Num(70)) => final = FAdd(raw, Num(10))
                ELSE final = raw

ZoneTable ==
    { <<"ROSSA", "#d32f2f", "U+1F534", "ZONA ROSSA ESTREMA",
        "Proteggere il capitale. Ridurre esposizione azionaria.">>,
      <<"GIALLA", "#fbc02d", "U+1F7E1", "ZONA GIALLA (CAUTELA)",
        "Accumulo graduale solo su debolezze significative.">>,
      <<"VERDE", "#388e3c", "U+1F7E2", "ZONA VERDE",
        "Ok sovrappesare azioni per il lungo periodo.">> }

\* C8: in the written status record, a latest smoothed score above 80 gives
\* zone ROSSA, a score above 50 and at most 80 gives GIALLA, a score of at
\* most 50 gives VERDE; and label, colour, glyph, printed zone and action
\* string all belong to one zone.
C8_ZoneClassification ==
    pc = "json" =>
        LET j == files[StatusFile]
            s == df[Len(df)].CrashMeter_Smooth
        IN  /\ (~IsNaN(s) /\ s.n > 80 * s.d) => j.zona = "ROSSA"
            /\ (~IsNaN(s) /\ s.n > 50 * s.d /\ s.n <= 80 * s.d) => j.zona = "GIALLA"
            /\ (~IsNaN(s) /\ s.n <= 50 * s.d) => j.zona = "VERDE"
            /\ <<j.zona, j.colore_hex, j.emoji, zona, j.azione_consigliata>>
                  \in ZoneTable

\* Witness of C8: a status record written for a score of exactly 80, in the
\* caution zone.
C8_Witness ==
    /\ pc = "json"
    /\ df[Len(df)].CrashMeter_Smooth = Num(80)
    /\ files[StatusFile].zona = "GIALLA"

\* A status record written for a score of exactly 50, in the normal zone.
C8_WitnessFifty ==
    /\ pc = "json"
    /\ df[Len(df)].CrashMeter_Smooth = Num(50)
    /\ files[StatusFile].zona = "VERDE"

\* ---- C9 -----------------------------------------------------------------
\* C9: whichever provider answers and in whichever scale, every value of the
\* rate series handed to the core is the true rate as a decimal fraction.
C9_RateNormalised ==
    pc = "rates" => \A d \in Index(rates) : rates[d] = world.rate[d]

\* ---- C10 ----------------------------------------------------------------
\* C10: in a completed run the published score and every smoothed score of
\* the exported history that is a number lies between 0 and 100.  (Stated
\* for the runs whose rate series is already correct.)
C10_ScoreRange ==
    (pc = "done" /\ rates = world.rate) =>
        /\ ~IsNaN(score) => (FGe(score, Num(0)) /\ FLe(score, Num(100)))
        /\ \A i \in 1..Len(files[HistoryFile]) :
              LET x == files[HistoryFile][i].CrashMeter_Smooth
              IN  ~IsNaN(x) => (FGe(x, Num(0)) /\ FLe(x, Num(100)))

\* ---- C2 -----------------------------------------------------------------
\* The three ranked series over the aligned dates, oldest first.
NegYieldGap ==
    LET ds == AlignedDates
    IN  AsSeq([j \in 1..Len(ds) |->
                 FSub(rates[ds[j]], FDiv(Num(1), cape[ds[j]]))])

Valuation ==
    LET ds == AlignedDates
    IN  AsSeq([j \in 1..Len(ds) |-> cape[ds[j]]])

ExtensionSeries ==
    LET p == AlignedPrice
    IN  AsSeq([j \in 1..Len(p) |->
                 IF j < SmaWindow THEN NaN
                 ELSE FSub(FDiv(p[j], FDiv(SumRange(p, j - SmaWindow + 1, j),
                                           Num(SmaWindow))),
                           Num(1))])

\* (count of j <= k with S[j] <= S[k]) / k
InclusiveRank(S, k) ==
    Frac(Cardinality({j \in 1..k : FLe(S[j], S[k])}), k)

Defined(S, k) == Cardinality({j \in 1..k : ~IsNaN(S[j])})
Below(S, k) == Cardinality({j \in 1..k : FLt(S[j], S[k])})
Ties(S, k) == Cardinality({j \in 1..k : FEq(S[j], S[k])})

\* ((number below) + (number of ties, itself included, + 1) / 2) over the
\* number of defined values of the prefix; undefined while fewer than
\* MinPeriods values are defined.
AverageTieRank(S, k) ==
    IF Defined(S, k) < MinPeriods THEN NaN
    ELSE Frac(2 * Below(S, k) + Ties(S, k) + 1, 2 * Defined(S, k))

\* C2 as claimed: for each of the three series and every retained row at
\* 0-indexed position i >= MinPeriods - 1, the percentile rank is the number
\* of rows j <= i with S[j] <= S[i], over i + 1.  (Stated for the runs whose
\* rate series is already correct.)
C2_InclusiveTies ==
    (pc = "indicators" /\ rates = world.rate) =>
        LET neg == NegYieldGap
            val == Valuation
            ext == ExtensionSeries
        IN  \A i \in 1..Len(df) :
               LET k == PosOf(df[i].Date)
               IN  k >= MinPeriods =>
                      /\ df[i].Valuation_Risk = InclusiveRank(neg, k)
                      /\ df[i].CAPE_Percentile = InclusiveRank(val, k)
                      /\ df[i].Extension_Risk = InclusiveRank(ext, k)

\* C2 as amended: for each of the three series and every retained row, the
\* percentile rank is the average rank of the row's value among the defined
\* values of rows 0..i, over their number, and is undefined while fewer than
\* MinPeriods of them are defined (the extension has no value on the first
\* SmaWindow - 1 rows); so a prefix of distinct values ranks its last row
\* (number below + 1)/n and an all-equal prefix ranks it (n+1)/(2n).
C2_AverageTies ==
    pc = "indicators" =>
        LET neg == NegYieldGap
            val == Valuation
            ext == ExtensionSeries
        IN  \A i \in 1..Len(df) :
               LET k == PosOf(df[i].Date)
                   v == df[i].Valuation_Risk
               IN  /\ v = AverageTieRank(neg, k)
                   /\ df[i].CAPE_Percentile = AverageTieRank(val, k)
                   /\ df[i].Extension_Risk = AverageTieRank(ext, k)
                   /\ IsNaN(v) <=> k < MinPeriods
                   /\ IsNaN(df[i].Extension_Risk) <=>
                         k < MinPeriods + SmaWindow - 1
                   /\ (~IsNaN(v) /\ Ties(neg, k) = 1) =>
                         v = Frac(Below(neg, k) + 1, k)
                   /\ (~IsNaN(v) /\ Ties(neg, k) = k) =>
                         v = Frac(k + 1, 2 * k)

\* Witness of C2: a ranked row whose value ties with every earlier row; its
\* rank is (n+1)/(2n), not 1.
C2_Witness ==
    /\ pc = "indicators"
    /\ \E i \in 1..Len(df) :
          LET k == PosOf(df[i].Date)
          IN  /\ k >= MinPeriods
              /\ Ties(Valuation, k) = k
              /\ df[i].CAPE_Percentile = Frac(k + 1, 2 * k)
              /\ df[i].CAPE_Percentile # Num(1)

\* ---- C3 -----------------------------------------------------------------
AllDefined(row) ==
    /\ ~IsNaN(row.Valuation_Risk)
    /\ ~IsNaN(row.Extension_Risk)
    /\ ~IsNaN(row.Base_Risk)
    /\ ~IsNaN(row.CrashMeter)

NoneDefined(row) ==
    /\ IsNaN(row.Valuation_Risk)
    /\ IsNaN(row.Extension_Risk)
    /\ IsNaN(row.Base_Risk)
    /\ IsNaN(row.CrashMeter)

\* C3: valuation_risk_pct, extension_risk_pct, base_risk and final_score are
\* all defined for every row at 0-indexed position i >= MinPeriods - 1 and all
\* undefined for every row before it; hence when every row is bullish,
\* final_score is the raw composite from the MinPeriods-th month onward.
\* (Stated for the runs whose rate series is already correct.)
C3_DefinedFromThreshold ==
    (pc = "scored" /\ rates = world.rate) =>
        /\ \A i \in 1..Len(df) :
              IF PosOf(df[i].Date) >= MinPeriods
              THEN AllDefined(df[i]) ELSE NoneDefined(df[i])
        /\ (\A i \in 1..Len(df) : df[i].Trend_Bull = 1) =>
              \A i \in 1..Len(df) :
                 PosOf(df[i].Date) >= MinPeriods =>
                    /\ ~IsNaN(df[i].CrashMeter)
                    /\ df[i].CrashMeter = Raw(df[i])

\* ---- C6 -----------------------------------------------------------------
\* A row with both percentile ranks.
Usable(row) == ~IsNaN(row.Valuation_Risk) /\ ~IsNaN(row.Extension_Risk)

\* C6: over the usable rows (those with their percentile ranks), the smoothed
\* score of row u is the mean of final_score over usable rows max(0,u-2)..u,
\* so the first usable row's smoothed score is its own final_score and no row
\* without percentile ranks contributes to a reported smoothed score.
\* (Stated for the runs whose rate series is already correct.)
C6_SmoothingOverUsable ==
    (pc = "scored" /\ rates = world.rate) =>
        LET U == SelectSeq(df, Usable)
            final == [u \in 1..Len(U) |-> U[u].CrashMeter]
        IN  \A u \in 1..Len(U) :
               LET lo == Max2(1, u - 2)
               IN  U[u].CrashMeter_Smooth =
                      FDiv(SumRange(final, lo, u), Num(u - lo + 1))

\* ---- C5 -----------------------------------------------------------------
AllFiles == {StatusFile, HistoryFile, ChartFile}

FetchErrors ==
    {"SourceUnavailable:cape", "SourceUnavailable:price",
     "SourceUnavailable:rates", "IndexError", "InsufficientHistory"}

ExportErrors == {"OSError:json", "OSError:csv", "Error:chart"}

\* C5 as claimed: a run ends with all three artifacts written or with none.
C5_AllOrNothing ==
    pc \in {"done", "aborted"} => DOMAIN files \in {{}, AllFiles}

\* C5 as amended: a failed retrieval or an aligned dataset of fewer than
\* MinPeriods rows ends the run with no indicator computed and no artifact
\* written, and no run with fewer than MinPeriods aligned rows gets past the
\* validation; the artifacts are written in the order status, history, chart,
\* each only after the scores exist, so the artifacts on disk are always the
\* first 0, 1, 2 or 3 of that order; a run that completes has written all
\* three, and a run ended by a failing export keeps what was written before.
C5_PublicationOrder ==
    /\ error \in FetchErrors =>
          /\ pc = "aborted"
          /\ DOMAIN files = {}
          /\ ~HasIndicators
          /\ IsNaN(score)
    /\ (pc \in {"merged", "indicators", "scored", "json", "csv", "done"}
          \/ error \in ExportErrors) =>
          Cardinality(CommonDates) >= MinPeriods
    /\ DOMAIN files \in {{}, {StatusFile}, {StatusFile, HistoryFile}, AllFiles}
    /\ DOMAIN files # {} => HasScores
    /\ pc = "done" => DOMAIN files = AllFiles
    /\ error = "OSError:json" => DOMAIN files = {}
    /\ error = "OSError:csv" => DOMAIN files = {StatusFile}
    /\ error = "Error:chart" => DOMAIN files = {StatusFile, HistoryFile}

\* Witness of C5: a run ended by a failing history export, with the status
\* record already on disk.
C5_Witness ==
    /\ pc = "aborted"
    /\ error = "OSError:csv"
    /\ DOMAIN files = {StatusFile}

====
